---------------------------- MODULE Spec2Model ----------------------------
(***************************************************************************)
(* A model of auditry's request/response logging middleware                *)
(* (src/src/auditry/middleware.py, src/src/auditry/unified_middleware.py). *)
(*                                                                         *)
(* Text is a sequence of one-character strings; an HTTP method is one      *)
(* element of such a sequence (a method holds no space).  A body is a      *)
(* sequence of bytes; the wire alphabet is abridged to one byte per JSON   *)
(* token ("{", "}", a key, a value), one byte of plain text ("t"), the     *)
(* two bytes of a two-byte UTF-8 character ("xC3" "xA9") and a byte that   *)
(* is never valid UTF-8 ("xFF").  A Python value is a record [t, v]        *)
(* carrying its Python type: the middleware returns plain dict / str /     *)
(* None values and tells them apart with isinstance and truthiness only.   *)
(***************************************************************************)
EXTENDS Integers, Sequences, FiniteSets, TLC

VARIABLES
    constructed,   \* "none" | "ok" (ObservabilityMiddleware) | "logging_only"
                   \* (RequestResponseLoggingMiddleware on its own) | "failed"
    config,        \* the ObservabilityConfig held by the middleware
    pc,            \* per invocation of dispatch: where it stands
    req,           \* per invocation: the inbound request object
    request_state, \* per invocation: the attributes now on request.state
    request_data,  \* per invocation: dispatch's local request_data
    ctx,           \* per invocation, and for the worker that serves them:
                   \* structlog's bound context variables
    trace,         \* the pipeline states entered so far, by every invocation
    log,           \* per invocation: the records handed to the logger, in order
    downstream,    \* per invocation: what call_next returned or raised
    result,        \* per invocation: what dispatch returned or raised
    call,          \* the arguments of a direct call of one method
    ret            \* what that call returned

vars == <<constructed, config, pc, req, request_state, request_data, ctx, trace, log, downstream,
          result, call, ret>>

---------------------------------------------------------------------------
(* Bounds of the model. *)

MaxBodyLen == 4
MaxLimit == 3
MaxTemplateLen == 4
MaxPathLen == 4

---------------------------------------------------------------------------
(* Python values. *)

PyNone == [t |-> "None", v |-> <<>>]
PyStr(s) == [t |-> "str", v |-> s]
PyInt(n) == [t |-> "int", v |-> <<n>>]
PyBool(b) == [t |-> "bool", v |-> <<b>>]
PyDict(d) == [t |-> "dict", v |-> d]

EmptyMap == [k \in {} |-> PyNone]

\* bool(x)
Truthy(x) ==
    CASE x.t = "None" -> FALSE
      [] x.t = "str" -> x.v # <<>>
      [] x.t = "int" -> x.v # <<0>>
      [] x.t = "bool" -> x.v = <<TRUE>>
      [] x.t = "dict" -> DOMAIN x.v # {}

\* isinstance(x, dict)
IsDict(x) == x.t = "dict"

\* All sequences over S of length at most n.
SeqsUpTo(S, n) == UNION {[1..k -> S] : k \in 0..n}

\* s[i:], 1-based.
Drop(s, i) == SubSeq(s, i + 1, Len(s))

\* s[:i]
Take(s, i) == SubSeq(s, 1, IF i < Len(s) THEN i ELSE Len(s))

---------------------------------------------------------------------------
(* The wire alphabet of bodies. *)

JsonKeys == {"name", "password"}
JsonValues == {"Docs", "hunter2"}
JsonScalars == {"7"}
TextBytes == {"t"}
Bytes == {"{", "}", "xC3", "xA9", "xFF"} \cup JsonKeys \cup JsonValues
             \cup JsonScalars \cup TextBytes

ReplacementChar == "U+FFFD"

\* bytes.decode("utf-8", errors="replace")
RECURSIVE Utf8DecodeReplace(_)
Utf8DecodeReplace(b) ==
    IF b = <<>> THEN <<>>
    ELSE IF b[1] = "xC3"
         THEN IF Len(b) >= 2 /\ b[2] = "xA9"
              THEN <<"e-acute">> \o Utf8DecodeReplace(Drop(b, 2))
              ELSE <<ReplacementChar>> \o Utf8DecodeReplace(Drop(b, 1))
    ELSE IF b[1] \in {"xA9", "xFF"}
         THEN <<ReplacementChar>> \o Utf8DecodeReplace(Drop(b, 1))
    ELSE <<b[1]>> \o Utf8DecodeReplace(Drop(b, 1))

\* Whether bytes.decode("utf-8") succeeds (the strict decode json.loads does first).
RECURSIVE ValidUtf8(_)
ValidUtf8(b) ==
    IF b = <<>> THEN TRUE
    ELSE IF b[1] = "xC3"
         THEN Len(b) >= 2 /\ b[2] = "xA9" /\ ValidUtf8(Drop(b, 2))
    ELSE IF b[1] \in {"xA9", "xFF"} THEN FALSE
    ELSE ValidUtf8(Drop(b, 1))

\* The members of a JSON object, "{" key value ... "}", read left to right:
\* a repeated key keeps its last value.
RECURSIVE JsonMembers(_, _)
JsonMembers(inner, acc) ==
    IF inner = <<>> THEN acc
    ELSE JsonMembers(Drop(inner, 2),
             [k \in DOMAIN acc \cup {inner[1]} |->
                 IF k = inner[1] THEN PyStr(<<inner[2]>>) ELSE acc[k]])

IsJsonObject(b) ==
    /\ Len(b) >= 2
    /\ b[1] = "{"
    /\ b[Len(b)] = "}"
    /\ (Len(b) - 2) % 2 = 0
    /\ \A i \in 2..(Len(b) - 1) :
          IF i % 2 = 0 THEN b[i] \in JsonKeys ELSE b[i] \in JsonValues

IsJsonScalar(b) == Len(b) = 1 /\ b[1] \in JsonScalars

\* json.loads(body_bytes): the decoded value, or the exception it raises.
\* The bytes are decoded as UTF-8 strictly before any JSON is parsed.
json_loads(b) ==
    IF ~ValidUtf8(b) THEN [exc |-> "UnicodeDecodeError", val |-> PyNone]
    ELSE IF IsJsonObject(b)
         THEN [exc |-> "none",
               val |-> PyDict(JsonMembers(SubSeq(b, 2, Len(b) - 1), EmptyMap))]
    ELSE IF IsJsonScalar(b) THEN [exc |-> "none", val |-> PyInt(7)]
    ELSE [exc |-> "JSONDecodeError", val |-> PyNone]

---------------------------------------------------------------------------
(* redaction.py *)

MaskToken == "***REDACTED***"
BuiltinSensitiveKeys == {"password", "authorization", "set-cookie"}

\* redact_data(data, additional_patterns)
redact_data(data, additional_patterns) ==
    IF IsDict(data)
    THEN PyDict([k \in DOMAIN data.v |->
                    IF k \in BuiltinSensitiveKeys \cup additional_patterns
                    THEN PyStr(<<MaskToken>>)
                    ELSE data.v[k]])
    ELSE data

\* redact_headers(headers)
redact_headers(headers) ==
    [k \in DOMAIN headers |->
        IF k \in BuiltinSensitiveKeys THEN MaskToken ELSE headers[k]]

---------------------------------------------------------------------------
(* RequestResponseLoggingMiddleware._parse_body_bytes *)

TruncatedMarker(body_bytes, limit) ==
    PyDict([k \in {"_truncated", "_original_size", "_preview"} |->
        CASE k = "_truncated" -> PyBool(TRUE)
          [] k = "_original_size" -> PyInt(Len(body_bytes))
          [] k = "_preview" -> PyStr(Utf8DecodeReplace(Take(body_bytes, limit)))])

\* _parse_body_bytes with the size check written >= instead of >.
_parse_body_bytes_limit_inclusive(body_bytes, cfg) ==
    IF body_bytes = <<>> THEN [exc |-> "none", val |-> PyNone]
    ELSE IF Len(body_bytes) >= cfg.payload_size_limit
         THEN [exc |-> "none",
               val |-> TruncatedMarker(body_bytes, cfg.payload_size_limit)]
    ELSE LET body_json == json_loads(body_bytes) IN
         CASE body_json.exc = "none" ->
                [exc |-> "none",
                 val |-> redact_data(body_json.val, cfg.additional_redaction_patterns)]
           [] body_json.exc = "JSONDecodeError" ->
                [exc |-> "none", val |-> PyStr(Utf8DecodeReplace(body_bytes))]
           [] OTHER -> [exc |-> body_json.exc, val |-> PyNone]

\* _parse_body_bytes returning the decoded JSON without redacting it.
_parse_body_bytes_unredacted(body_bytes, cfg) ==
    IF body_bytes = <<>> THEN [exc |-> "none", val |-> PyNone]
    ELSE IF Len(body_bytes) > cfg.payload_size_limit
         THEN [exc |-> "none",
               val |-> TruncatedMarker(body_bytes, cfg.payload_size_limit)]
    ELSE LET body_json == json_loads(body_bytes) IN
         CASE body_json.exc = "none" -> [exc |-> "none", val |-> body_json.val]
           [] body_json.exc = "JSONDecodeError" ->
                [exc |-> "none", val |-> PyStr(Utf8DecodeReplace(body_bytes))]
           [] OTHER -> [exc |-> body_json.exc, val |-> PyNone]

_parse_body_bytes(body_bytes, cfg) ==
    IF body_bytes = <<>> THEN [exc |-> "none", val |-> PyNone]
    ELSE IF Len(body_bytes) > cfg.payload_size_limit
         THEN [exc |-> "none",
               val |-> TruncatedMarker(body_bytes, cfg.payload_size_limit)]
    ELSE LET body_json == json_loads(body_bytes) IN
         CASE body_json.exc = "none" ->
                [exc |-> "none",
                 val |-> redact_data(body_json.val, cfg.additional_redaction_patterns)]
           [] body_json.exc = "JSONDecodeError" ->
                [exc |-> "none", val |-> PyStr(Utf8DecodeReplace(body_bytes))]
           [] OTHER -> [exc |-> body_json.exc, val |-> PyNone]

\* What `await request.body()` gives: the bytes, or an exception.
IOFailure == <<"IOFailure">>

\* RequestResponseLoggingMiddleware._capture_request_body: the captured body
\* and the warning records it logged.
\* _capture_request_body swallowing a failed read without a warning.
_capture_request_body_silent(read, cfg) ==
    IF read = IOFailure
    THEN [val |-> PyNone, warnings |-> <<>>]
    ELSE LET parsed == _parse_body_bytes(read, cfg) IN
         IF parsed.exc = "none"
         THEN [val |-> parsed.val, warnings |-> <<>>]
         ELSE [val |-> PyNone,
               warnings |-> <<[level |-> "warning", exc |-> parsed.exc]>>]

_capture_request_body(read, cfg) ==
    IF read = IOFailure
    THEN [val |-> PyNone, warnings |-> <<[level |-> "warning", exc |-> "IOFailure"]>>]
    ELSE LET parsed == _parse_body_bytes(read, cfg) IN
         IF parsed.exc = "none"
         THEN [val |-> parsed.val, warnings |-> <<>>]
         ELSE [val |-> PyNone,
               warnings |-> <<[level |-> "warning", exc |-> parsed.exc]>>]

---------------------------------------------------------------------------
(* Endpoint patterns: "METHOD /template". *)

Space == " "
Newline == "LF"
SegmentClass == "[^/]+"
SegmentGroup == "([^/]+)"

\* str.split(" ", 1)
Split1(s) ==
    IF \E i \in 1..Len(s) : s[i] = Space
    THEN LET i == CHOOSE i \in 1..Len(s) :
                     s[i] = Space /\ \A j \in 1..(i - 1) : s[j] # Space
         IN <<SubSeq(s, 1, i - 1), Drop(s, i)>>
    ELSE <<s>>

\* Where the placeholder \{[^}]+\} that starts at s[1] ends, or 0 when none
\* starts there: the first "}" after s[1], with at least one character between.
PlaceholderEnd(s) ==
    IF s # <<>> /\ s[1] = "{" /\ \E j \in 2..Len(s) : s[j] = "}"
    THEN LET j == CHOOSE j \in 2..Len(s) :
                     s[j] = "}" /\ \A k \in 2..(j - 1) : s[k] # "}"
         IN IF j >= 3 THEN j ELSE 0
    ELSE 0

\* re.sub(r"\{[^}]+\}", repl, pattern_path): the regular expression, one
\* element per character of the template outside the placeholders.
RECURSIVE re_sub_placeholders(_, _)
re_sub_placeholders(repl, s) ==
    IF s = <<>> THEN <<>>
    ELSE LET j == PlaceholderEnd(s) IN
         IF j > 0 THEN <<repl>> \o re_sub_placeholders(repl, Drop(s, j))
         ELSE <<s[1]>> \o re_sub_placeholders(repl, Drop(s, 1))

\* re.findall(r"\{([^}]+)\}", pattern_path)
RECURSIVE re_findall_placeholders(_)
re_findall_placeholders(s) ==
    IF s = <<>> THEN <<>>
    ELSE LET j == PlaceholderEnd(s) IN
         IF j > 0 THEN <<SubSeq(s, 2, j - 1)>> \o re_findall_placeholders(Drop(s, j))
         ELSE re_findall_placeholders(Drop(s, 1))

\* Whether re compiles the expression: an opening parenthesis of the template
\* is never closed ("missing ), unterminated subpattern").
re_compiles(regex) == \A i \in 1..Len(regex) : regex[i] # "("

\* re.match("^" + regex + "$", text) for an expression that compiles: whether
\* it matches and the groups it captured.  A character of the template is
\* regular-expression syntax: "." is any character but a newline, "{" and "}"
\* outside a placeholder stand for themselves, "$" also matches before a
\* final newline; a segment class takes the longest run that lets the rest
\* match.
RECURSIVE re_match(_, _)
re_match(regex, text) ==
    IF regex = <<>>
    THEN [ok |-> text = <<>> \/ text = <<Newline>>, groups |-> <<>>]
    ELSE IF regex[1] \in {SegmentClass, SegmentGroup}
    THEN LET fits == {k \in 1..Len(text) :
                         /\ \A i \in 1..k : text[i] # "/"
                         /\ re_match(Tail(regex), Drop(text, k)).ok}
         IN IF fits = {} THEN [ok |-> FALSE, groups |-> <<>>]
            ELSE LET k == CHOOSE k \in fits : \A m \in fits : m <= k
                     rest == re_match(Tail(regex), Drop(text, k))
                 IN [ok |-> TRUE,
                     groups |-> IF regex[1] = SegmentGroup
                                THEN <<Take(text, k)>> \o rest.groups
                                ELSE rest.groups]
    ELSE IF text # <<>> /\ (IF regex[1] = "." THEN text[1] # Newline
                                              ELSE text[1] = regex[1])
    THEN re_match(Tail(regex), Tail(text))
    ELSE [ok |-> FALSE, groups |-> <<>>]

\* RequestResponseLoggingMiddleware._matches_endpoint_pattern: the boolean it
\* returns, or the exception it raises.
_matches_endpoint_pattern(endpoint, pattern) ==
    LET endpoint_parts == Split1(endpoint)
        pattern_parts == Split1(pattern)
    IN IF Len(endpoint_parts) # 2 \/ Len(pattern_parts) # 2
       THEN [exc |-> "none", val |-> FALSE]
       ELSE IF endpoint_parts[1] # pattern_parts[1]
       THEN [exc |-> "none", val |-> FALSE]
       ELSE LET pattern_regex == re_sub_placeholders(SegmentClass, pattern_parts[2])
            IN IF ~re_compiles(pattern_regex)
               THEN [exc |-> "re.error", val |-> FALSE]
               ELSE [exc |-> "none",
                     val |-> re_match(pattern_regex, endpoint_parts[2]).ok]

\* "".join(chars)
RECURSIVE Join(_)
Join(chars) == IF chars = <<>> THEN "" ELSE chars[1] \o Join(Tail(chars))

\* RequestResponseLoggingMiddleware._extract_path_params: the mapping of
\* parameter names to path segments, or the exception it raises.
_extract_path_params(path, pattern) ==
    LET pattern_path == IF \E i \in 1..Len(pattern) : pattern[i] = Space
                        THEN Split1(pattern)[2] ELSE pattern
        param_names == re_findall_placeholders(pattern_path)
        pattern_regex == re_sub_placeholders(SegmentGroup, pattern_path)
    IN IF param_names = <<>> THEN [exc |-> "none", val |-> EmptyMap]
       ELSE IF ~re_compiles(pattern_regex) THEN [exc |-> "re.error", val |-> EmptyMap]
       ELSE LET match == re_match(pattern_regex, path) IN
            IF ~match.ok THEN [exc |-> "none", val |-> EmptyMap]
            ELSE [exc |-> "none",
                  val |-> [n \in {Join(param_names[i]) : i \in 1..Len(param_names)} |->
                      LET i == CHOOSE i \in 1..Len(param_names) :
                                   /\ Join(param_names[i]) = n
                                   /\ \A j \in (i + 1)..Len(param_names) :
                                         Join(param_names[j]) # n
                      IN PyStr(match.groups[i])]]

---------------------------------------------------------------------------
(* models.py: ObservabilityConfig and BusinessEventConfig. *)

Pat(method, template) == <<method, Space>> \o template

NoFields == <<>>

BusinessEventConfig(event_type, from_request, from_response, from_path) ==
    [event_type |-> event_type,
     extract_from_request |-> from_request,
     extract_from_response |-> from_response,
     extract_from_path |-> from_path]

EvCreated ==
    BusinessEventConfig("folder.created", <<"name", "password", "_preview">>,
                        <<"name", "_message">>, NoFields)
EvRead == BusinessEventConfig("item.read", NoFields, NoFields, <<"x">>)
EvOther == BusinessEventConfig("other", NoFields, NoFields, NoFields)

\* business_events mappings, each in its insertion order.
EventLists ==
    { <<>>,
      << <<Pat("POST", <<"/", "a">>), EvCreated>>,
         <<Pat("GET", <<"/", "{", "x", "}">>), EvRead>> >>,
      << <<Pat("GET", <<"/", "{", "x", "}">>), EvRead>>,
         <<Pat("GET", <<"/", "a">>), EvCreated>> >>,
      << <<Pat("GET", <<"/", "a">>), EvCreated>>,
         <<Pat("GET", <<"/", "{", "x", "}">>), EvRead>> >>,
      << <<Pat("GET", <<"/", "a", "(">>), EvOther>>,
         <<Pat("GET", <<"/", "{", "x", "}">>), EvRead>> >>,
      << <<Pat("GET", <<"/", "a", ".", "b">>), EvOther>>,
         <<Pat("GET", <<"/", "a", "/", "b">>), EvCreated>> >> }

\* The payload_size_limit of the pipeline's configurations.
PipelineLimit == 6

ObservabilityConfig(hdr_in, hdr_out, query, limit, extra, events) ==
    [service_name |-> "example-api",
     correlation_id_header |-> "X-Correlation-ID",
     log_request_headers |-> hdr_in,
     log_response_headers |-> hdr_out,
     log_query_params |-> query,
     payload_size_limit |-> limit,
     additional_redaction_patterns |-> extra,
     business_events |-> events]

\* The settings of log_request_headers, log_response_headers, log_query_params.
LogFlags ==
    { <<TRUE, TRUE, TRUE>>, <<FALSE, FALSE, FALSE>>,
      <<TRUE, FALSE, FALSE>>, <<FALSE, TRUE, TRUE>>, <<TRUE, TRUE, FALSE>> }

Configs ==
    {ObservabilityConfig(f[1], f[2], f[3], PipelineLimit, p, e) :
        f \in LogFlags, p \in {{}, {"name"}}, e \in EventLists}

\* A configuration whose only pattern has no space between method and template.
UnsplittableConfig ==
    ObservabilityConfig(TRUE, TRUE, TRUE, PipelineLimit, {},
                        << <<<<"GET", "/", "a">>, EvOther>> >>)

NoConfig == [absent |-> TRUE]

\* What the constructor of ObservabilityConfig accepts.
ValidConfig(cfg) ==
    /\ cfg.service_name # ""
    /\ cfg.payload_size_limit > 0
    /\ \A i \in 1..Len(cfg.business_events) :
          LET parts == Split1(cfg.business_events[i][1]) IN
          Len(parts) = 2 /\ parts[1] # <<>> /\ parts[2] # <<>>

\* The configuration of a middleware whose methods are called directly.
CallConfig(limit, extra) == ObservabilityConfig(TRUE, TRUE, TRUE, limit, extra, <<>>)

---------------------------------------------------------------------------
(* Requests, responses and exceptions. *)

Endpoints ==
    { <<"GET", <<"/", "a">> >>, <<"GET", <<"/", "a", "/", "b">> >>,
      <<"POST", <<"/", "a">> >> }

\* What is on the wire for the request body: bytes, or a failing stream.
RequestBodies ==
    { <<>>,
      <<"{", "}">>,
      <<"{", "name", "Docs", "password", "hunter2", "}">>,
      <<"7">>,
      <<"t", "xC3", "xA9">>,
      <<"xFF">>,
      <<"{", "password", "hunter2", "name", "Docs", "name", "Docs", "}">>,
      IOFailure }

\* request.state as its attributes: empty, a direct user_id, a user object.
HandlerUserId == PyStr(<<"user_1">>)
RequestStates ==
    { EmptyMap,
      [k \in {"user_id"} |-> PyStr(<<"u1">>)],
      [k \in {"user_id"} |-> PyStr(<<>>)],
      [k \in {"user"} |-> [a \in {"id"} |-> PyStr(<<"u2">>)]],
      [k \in {"user"} |-> [a \in {"name"} |-> PyStr(<<"n">>)]],
      [k \in {"user_id", "user"} |->
          IF k = "user_id" THEN PyStr(<<"u1">>) ELSE [a \in {"id"} |-> PyStr(<<"u2">>)]] }

RequestHeaders == [k \in {"accept", "authorization"} |->
                      IF k = "accept" THEN "json" ELSE "Bearer abc"]

\* The key under which request.headers holds the header of a given name.
HeaderKey(name) == IF name = "X-Correlation-ID" THEN "x-correlation-id" ELSE name

\* The inbound headers: without and with a correlation header.
InboundHeaders ==
    { RequestHeaders,
      [k \in DOMAIN RequestHeaders \cup {"x-correlation-id"} |->
          IF k = "x-correlation-id" THEN "abc123" ELSE RequestHeaders[k]] }

\* The token the correlation middleware makes for invocation r of a request
\* that brings none.
GeneratedToken(r) == <<"generated-for-" \o r>>

\* What get_correlation_id() returns inside dispatch.  Behind the
\* correlation middleware of ObservabilityMiddleware it is the inbound
\* header value when there is a non-empty one and a generated token
\* otherwise; with no correlation middleware in front nothing has set it.
get_correlation_id(stack, r, request, cfg) ==
    IF stack # "ok" THEN PyNone
    ELSE LET key == HeaderKey(cfg.correlation_id_header) IN
         IF key \in DOMAIN request.headers /\ request.headers[key] # ""
         THEN PyStr(<<request.headers[key]>>)
         ELSE PyStr(GeneratedToken(r))
QueryParams == [k \in {"q"} |-> "1"]
ResponseHeaders == [k \in {"content-type", "set-cookie"} |->
                       IF k = "content-type" THEN "json" ELSE "sid=1"]

ResponseBodies ==
    { <<>>, <<"{", "name", "Docs", "}">>, <<"xFF">>, <<"t">> }

\* The chunks a streaming response has yet to send.
StreamChunks == << <<"{", "name">>, <<"Docs", "}">> >>

\* The responses call_next may return: a Response with a body, a
\* StreamingResponse, a response object without a body attribute.
Responses ==
    {[kind |-> "Response", status_code |-> 200, headers |-> ResponseHeaders,
      body |-> b, body_iterator |-> <<>>] : b \in ResponseBodies}
    \cup {[kind |-> "StreamingResponse", status_code |-> 200,
           headers |-> ResponseHeaders, body |-> <<>>,
           body_iterator |-> StreamChunks]}
    \cup {[kind |-> "NoBodyAttribute", status_code |-> 200,
           headers |-> ResponseHeaders, body |-> <<>>, body_iterator |-> <<>>]}

\* The exceptions (instances of Exception) the handler may raise.
HandlerExceptions ==
    {[type |-> "ValueError", message |-> "This is a test error"],
     [type |-> "KeyError", message |-> "missing"]}

RegexError == [type |-> "error", message |-> "missing ), unterminated subpattern"]
CancelledError == [type |-> "CancelledError", message |-> ""]

NoResponse == [absent |-> TRUE]
Idle == [absent |-> TRUE]

---------------------------------------------------------------------------
(* RequestResponseLoggingMiddleware: capture. *)

\* _capture_request up to its await of the body: the request_data it will
\* return, the body not yet read.
_capture_request_nested_id_first(request, correlation_id, cfg) ==
    [method |-> request.method,
     path |-> request.path,
     query_params |-> IF cfg.log_query_params THEN request.query_params ELSE PyNone,
     headers |-> IF cfg.log_request_headers
                 THEN redact_headers(request.headers) ELSE PyNone,
     body |-> PyNone,
     user_id |-> IF "user" \in DOMAIN request.state
                    /\ "id" \in DOMAIN request.state["user"]
                 THEN request.state["user"]["id"]
                 ELSE IF "user_id" \in DOMAIN request.state
                      THEN request.state["user_id"]
                      ELSE PyNone,
     correlation_id |-> correlation_id]

_capture_request(request, correlation_id, cfg) ==
    [method |-> request.method,
     path |-> request.path,
     query_params |-> IF cfg.log_query_params THEN request.query_params ELSE PyNone,
     headers |-> IF cfg.log_request_headers
                 THEN redact_headers(request.headers) ELSE PyNone,
     body |-> PyNone,
     user_id |-> IF "user_id" \in DOMAIN request.state
                 THEN request.state["user_id"]
                 ELSE IF "user" \in DOMAIN request.state
                         /\ "id" \in DOMAIN request.state["user"]
                      THEN request.state["user"]["id"]
                      ELSE PyNone,
     correlation_id |-> correlation_id]

StreamingMarker ==
    PyDict([k \in {"_streaming", "_message"} |->
               IF k = "_streaming" THEN PyBool(TRUE)
               ELSE PyStr(<<"Streaming response body not captured">>)])

\* The chunks of a stream read into one body.
RECURSIVE Buffered(_)
Buffered(chunks) == IF chunks = <<>> THEN <<>> ELSE chunks[1] \o Buffered(Tail(chunks))

\* The captured body and warnings of a body that was parsed; the response's
\* stream is as it was.
Parsed(parsed, body_iterator) ==
    IF parsed.exc = "none"
    THEN [val |-> parsed.val, warnings |-> <<>>, body_iterator |-> body_iterator]
    ELSE [val |-> PyNone,
          warnings |-> <<[level |-> "warning", exc |-> parsed.exc]>>,
          body_iterator |-> body_iterator]

\* _capture_response_body reading a streaming response to its end to
\* capture what it sends.
_capture_response_body_buffers_stream(response, cfg) ==
    IF response.kind = "StreamingResponse"
    THEN Parsed(_parse_body_bytes(Buffered(response.body_iterator), cfg), <<>>)
    ELSE IF response.kind = "Response"
    THEN Parsed(_parse_body_bytes(response.body, cfg), response.body_iterator)
    ELSE [val |-> PyNone, warnings |-> <<>>, body_iterator |-> response.body_iterator]

\* _capture_response_body: the captured body, the warnings it logged and
\* what is left of the response's body stream.
_capture_response_body(response, cfg) ==
    IF response.kind = "StreamingResponse"
    THEN [val |-> StreamingMarker, warnings |-> <<>>,
          body_iterator |-> response.body_iterator]
    ELSE IF response.kind = "Response"
    THEN Parsed(_parse_body_bytes(response.body, cfg), response.body_iterator)
    ELSE [val |-> PyNone, warnings |-> <<>>, body_iterator |-> response.body_iterator]

\* response_data once the body is captured.
ResponseData_raw_headers(response, cfg, body) ==
    [val |-> [status_code |-> response.status_code,
              headers |-> IF cfg.log_response_headers
                          THEN response.headers ELSE PyNone,
              body |-> body.val],
     warnings |-> body.warnings,
     body_iterator |-> body.body_iterator]

ResponseData(response, cfg, body) ==
    [val |-> [status_code |-> response.status_code,
              headers |-> IF cfg.log_response_headers
                          THEN redact_headers(response.headers) ELSE PyNone,
              body |-> body.val],
     warnings |-> body.warnings,
     body_iterator |-> body.body_iterator]

\* _capture_response: response_data, the warnings logged on the way and
\* what is left of the response's body stream.
_capture_response(response, cfg) ==
    ResponseData(response, cfg, _capture_response_body(response, cfg))

---------------------------------------------------------------------------
(* RequestResponseLoggingMiddleware._extract_business_event *)

\* a updated with b, as dict.update does.
Update(a, b) ==
    [k \in DOMAIN a \cup DOMAIN b |-> IF k \in DOMAIN b THEN b[k] ELSE a[k]]

\* The fields of `names` a captured body gives to business_context.
FieldsFrom(names, body) ==
    IF names # <<>> /\ Truthy(body) /\ IsDict(body)
    THEN [k \in {names[i] : i \in 1..Len(names)} \cap DOMAIN body.v |-> body.v[k]]
    ELSE EmptyMap

\* The business_context of the event configured for `pattern`.
BusinessContext(path, pattern, event_config, request_data_, response_data) ==
    LET from_request == FieldsFrom(event_config.extract_from_request,
                                   request_data_.body)
        from_response == FieldsFrom(event_config.extract_from_response,
                                    response_data.body)
        names == event_config.extract_from_path
        path_params == IF names # <<>> THEN _extract_path_params(path, pattern)
                       ELSE [exc |-> "none", val |-> EmptyMap]
        from_path == [k \in {names[i] : i \in 1..Len(names)}
                               \cap DOMAIN path_params.val |-> path_params.val[k]]
    IN [exc |-> path_params.exc,
        val |-> Update(Update(from_request, from_response), from_path)]

NoEvent == [exc |-> "none", matched |-> FALSE, event_type |-> "",
            business_context |-> EmptyMap]

\* The loop over business_events from its i-th item on.
RECURSIVE EventFrom(_, _, _, _, _)
EventFrom(i, request, request_data_, response_data, cfg) ==
    IF i > Len(cfg.business_events) THEN NoEvent
    ELSE LET pattern == cfg.business_events[i][1]
             event_config == cfg.business_events[i][2]
             matches == _matches_endpoint_pattern(
                            Pat(request.method, request.path), pattern)
         IN IF matches.exc # "none" THEN [NoEvent EXCEPT !.exc = matches.exc]
            ELSE IF matches.val
            THEN LET context == BusinessContext(request.path, pattern, event_config,
                                                request_data_, response_data)
                 IN [exc |-> context.exc, matched |-> context.exc = "none",
                     event_type |-> event_config.event_type,
                     business_context |-> context.val]
            ELSE EventFrom(i + 1, request, request_data_, response_data, cfg)

_extract_business_event(request, request_data_, response_data, cfg) ==
    IF cfg.business_events = <<>> THEN NoEvent
    ELSE EventFrom(1, request, request_data_, response_data, cfg)

---------------------------------------------------------------------------
(* RequestResponseLoggingMiddleware.dispatch *)

SuccessRecord(cfg, request_data_, response_data, event) ==
    [level |-> "info",
     service |-> cfg.service_name,
     request |-> request_data_,
     response |-> response_data,
     has_event |-> event.matched,
     event_type |-> event.event_type,
     business_context |-> event.business_context,
     exception_type |-> "",
     exception_message |-> ""]

FailureRecord(cfg, request_data_, e) ==
    [level |-> "error",
     service |-> cfg.service_name,
     request |-> request_data_,
     response |-> NoResponse,
     has_event |-> FALSE,
     event_type |-> "",
     business_context |-> EmptyMap,
     exception_type |-> e.type,
     exception_message |-> e.message]

\* The header written under a fixed name, whatever name is configured.
SetHeader_fixed_name(response, name, value) ==
    [response EXCEPT !.headers = Update(@, [k \in {"X-Request-ID"} |-> value])]

\* response.headers[name] = value
SetHeader(response, name, value) ==
    [response EXCEPT !.headers = Update(@, [k \in {name} |-> value])]

\* The except branch raising a new exception in place of the one it caught.
ExceptBranch_raises_wrapped(cfg, request_data_, e, logged) ==
    [records |-> logged \o <<FailureRecord(cfg, request_data_, e)>>,
     steps |-> <<"EMIT_FAILURE">>,
     result |-> [kind |-> "raised",
                 exc |-> [type |-> "RuntimeError", message |-> e.message]]]

\* The except branch of dispatch: one error record, and the exception is
\* raised again as it is.
ExceptBranch(cfg, request_data_, e, logged) ==
    [records |-> logged \o <<FailureRecord(cfg, request_data_, e)>>,
     steps |-> <<"EMIT_FAILURE">>,
     result |-> [kind |-> "raised", exc |-> e]]

\* dispatch lines 82-83: the response with the correlation header, when
\* there is a correlation id.
WithCorrelationHeader(cfg, request_data_, response) ==
    IF Truthy(request_data_.correlation_id)
    THEN SetHeader(response, cfg.correlation_id_header,
                   Join(request_data_.correlation_id.v))
    ELSE response

\* The success record logged before the request is classified.
Emit_before_classifying(cfg, request_data_, response, captured, event) ==
    IF event.exc # "none"
    THEN [ExceptBranch(cfg, request_data_, RegexError,
                       captured.warnings
                           \o <<SuccessRecord(cfg, request_data_, captured.val,
                                              NoEvent)>>)
             EXCEPT !.steps = <<"CAPTURING_RESPONSE", "EMIT_SUCCESS", "CLASSIFYING">> \o @]
    ELSE [records |-> captured.warnings
                        \o <<SuccessRecord(cfg, request_data_, captured.val, NoEvent)>>,
          steps |-> <<"CAPTURING_RESPONSE", "EMIT_SUCCESS", "CLASSIFYING">>,
          result |-> [kind |-> "returned", response |-> response]]

\* dispatch lines 86-108 and the except branch: with the response captured
\* and the request classified, the success record and the response, or the
\* failure record for an exception of the classification.
Emit(cfg, request_data_, response, captured, event) ==
    IF event.exc # "none"
    THEN [ExceptBranch(cfg, request_data_, RegexError, captured.warnings)
             EXCEPT !.steps = <<"CAPTURING_RESPONSE", "CLASSIFYING">> \o @]
    ELSE [records |-> captured.warnings
                        \o <<SuccessRecord(cfg, request_data_, captured.val, event)>>,
          steps |-> <<"CAPTURING_RESPONSE", "CLASSIFYING", "EMIT_SUCCESS">>,
          result |-> [kind |-> "returned", response |-> response]]

\* dispatch lines 79-108, the response captured.
AfterCapture(cfg, request, request_data_, response, captured) ==
    Emit(cfg, request_data_,
         WithCorrelationHeader(cfg, request_data_,
             [response EXCEPT !.body_iterator = captured.body_iterator]),
         captured,
         _extract_business_event(request, request_data_, captured.val, cfg))

\* dispatch logging the success record before the request is classified.
DispatchAfterCallNext_logs_before_classifying(cfg, request, request_data_, outcome) ==
    IF outcome.kind = "raised"
    THEN ExceptBranch(cfg, request_data_, outcome.exc, <<>>)
    ELSE LET captured == _capture_response(outcome.response, cfg) IN
         Emit_before_classifying(cfg, request_data_, outcome.response, captured,
             _extract_business_event(request, request_data_, captured.val, cfg))

\* dispatch from the moment call_next is over, with what call_next gave
\* (a response, or an exception): the records logged, the pipeline states
\* passed and what dispatch returns or raises.
DispatchAfterCallNext(cfg, request, request_data_, outcome) ==
    IF outcome.kind = "raised"
    THEN ExceptBranch(cfg, request_data_, outcome.exc, <<>>)
    ELSE AfterCapture(cfg, request, request_data_, outcome.response,
                      _capture_response(outcome.response, cfg))

---------------------------------------------------------------------------
(* Direct calls of the pure methods. *)

NoRequests == [r \in {} |-> "idle"]
Pending == [done |-> FALSE]

CaptureBytes == Bytes \ {"hunter2"}
TemplateChars == {"/", "a", ".", "(", "{", "}"}
PathChars == {"/", "a", "b"}

\* The pipeline's state while only a method is called directly.
NoPipeline ==
    /\ constructed = "ok"
    /\ pc = NoRequests
    /\ req = NoRequests
    /\ request_state = NoRequests
    /\ request_data = NoRequests
    /\ ctx = NoRequests
    /\ trace = <<>>
    /\ log = NoRequests
    /\ downstream = NoRequests
    /\ result = NoRequests

UnchangedPipeline ==
    UNCHANGED <<constructed, config, pc, req, request_state, request_data, ctx, trace, log, downstream,
                result>>

CallParseBodyBytes ==
    /\ ret = Pending
    /\ call.fn = "_parse_body_bytes"
    /\ ret' = [done |-> TRUE, out |-> _parse_body_bytes(call.body, config)]
    /\ UNCHANGED call
    /\ UnchangedPipeline

CallCaptureRequestBody ==
    /\ ret = Pending
    /\ call.fn = "_capture_request_body"
    /\ ret' = [done |-> TRUE, out |-> _capture_request_body(call.body, config)]
    /\ UNCHANGED call
    /\ UnchangedPipeline

CallMatchesEndpointPattern ==
    /\ ret = Pending
    /\ call.fn = "_matches_endpoint_pattern"
    /\ ret' = [done |-> TRUE,
               out |-> _matches_endpoint_pattern(call.endpoint, call.pattern)]
    /\ UNCHANGED call
    /\ UnchangedPipeline

CallExtractPathParams ==
    /\ ret = Pending
    /\ call.fn = "_extract_path_params"
    /\ ret' = [done |-> TRUE,
               out |-> _extract_path_params(call.path, call.pattern)]
    /\ UNCHANGED call
    /\ UnchangedPipeline

InitCapture ==
    /\ \E f \in {"_parse_body_bytes", "_capture_request_body"},
          b \in SeqsUpTo(CaptureBytes, MaxBodyLen), l \in 1..MaxLimit :
          /\ call = [fn |-> f, body |-> b]
          /\ config = CallConfig(l, {})
    /\ ret = Pending
    /\ NoPipeline
NextCapture == CallParseBodyBytes \/ CallCaptureRequestBody
SpecCapture == InitCapture /\ [][NextCapture]_vars

InitMatch ==
    /\ \E path \in SeqsUpTo(PathChars, MaxPathLen), m \in {"GET", "POST"},
          template \in SeqsUpTo(TemplateChars, MaxTemplateLen), spaced \in BOOLEAN :
          call = [fn |-> "_matches_endpoint_pattern",
                  endpoint |-> Pat("GET", path),
                  pattern |-> IF spaced THEN Pat(m, template) ELSE <<m>> \o template]
    /\ config = CallConfig(PipelineLimit, {})
    /\ ret = Pending
    /\ NoPipeline
NextMatch == CallMatchesEndpointPattern
SpecMatch == InitMatch /\ [][NextMatch]_vars

TwoParameterTemplates ==
    {<<"/", "{", "a", "}", "/", "{", "b", "}">>,
     <<"/", "{", "b", "}", "/", "{", "a", "}">>,
     <<"/", "{", "a", "}", ".", "{", "b", "}">>,
     <<"/", "a", "/", "{", "a", "b", "}">>}
ExtractTemplates == SeqsUpTo(TemplateChars, MaxTemplateLen) \cup TwoParameterTemplates
InitExtract ==
    /\ \E path \in SeqsUpTo(PathChars, MaxPathLen), m \in {"GET", "POST"},
          template \in ExtractTemplates, spaced \in BOOLEAN :
          call = [fn |-> "_extract_path_params",
                  path |-> path,
                  pattern |-> IF spaced THEN Pat(m, template) ELSE template]
    /\ config = CallConfig(PipelineLimit, {})
    /\ ret = Pending
    /\ NoPipeline
NextExtract == CallExtractPathParams
SpecExtract == InitExtract /\ [][NextExtract]_vars

---------------------------------------------------------------------------
(* Properties of the direct calls. *)

\* Whether a returned value is the marker of a truncated body.
IsTruncatedValue(x) ==
    /\ IsDict(x)
    /\ "_truncated" \in DOMAIN x.v
    /\ x.v["_truncated"] = PyBool(TRUE)

ParseReturned ==
    /\ ret.done
    /\ call.fn = "_parse_body_bytes"
    /\ call.body # <<>>

\* C4: for a non-empty payload B and limit L, _parse_body_bytes returns no
\* truncated result when len(B) <= L, and when len(B) > L it returns (without
\* raising) the truncated result whose original size is len(B) and whose
\* preview is the first L bytes of B decoded with invalid sequences replaced.
C4_TruncatedExactlyAboveLimit ==
    ParseReturned =>
        LET B == call.body
            L == config.payload_size_limit
        IN IF Len(B) <= L
           THEN ~(ret.out.exc = "none" /\ IsTruncatedValue(ret.out.val))
           ELSE /\ ret.out.exc = "none"
                /\ IsTruncatedValue(ret.out.val)
                /\ ret.out.val.v["_original_size"] = PyInt(Len(B))
                /\ ret.out.val.v["_preview"] =
                       PyStr(Utf8DecodeReplace([i \in 1..L |-> B[i]]))

\* C4's case: an oversized payload cut in the middle of a two-byte character,
\* whose preview ends with the replacement character.
C4_Witness ==
    /\ ParseReturned
    /\ Len(call.body) > config.payload_size_limit
    /\ call.body[config.payload_size_limit] = "xC3"
    /\ call.body[config.payload_size_limit + 1] = "xA9"
    /\ ret.out.val.v["_preview"].v[config.payload_size_limit] = ReplacementChar

\* C5: a non-empty body within the limit is captured as the redacted decoded
\* value when its bytes decode as JSON, and otherwise as raw text, the bytes
\* decoded as UTF-8 with invalid sequences replaced, whatever the bytes are.
C5_DecodedOrRawText ==
    (/\ ret.done
     /\ call.fn = "_capture_request_body"
     /\ call.body # <<>>
     /\ Len(call.body) <= config.payload_size_limit) =>
        IF json_loads(call.body).exc = "none"
        THEN ret.out.val = redact_data(json_loads(call.body).val,
                                       config.additional_redaction_patterns)
        ELSE ret.out.val = PyStr(Utf8DecodeReplace(call.body))

\* Whether a path is the template with each placeholder replaced by one
\* non-empty run of characters without "/", every other character of the
\* template standing for itself.
RECURSIVE IsTemplateInstance(_, _)
IsTemplateInstance(template, path) ==
    IF template = <<>> THEN path = <<>>
    ELSE LET j == PlaceholderEnd(template) IN
         IF j > 0
         THEN \E k \in 1..Len(path) :
                 /\ \A i \in 1..k : path[i] # "/"
                 /\ IsTemplateInstance(Drop(template, j), Drop(path, k))
         ELSE /\ path # <<>>
              /\ path[1] = template[1]
              /\ IsTemplateInstance(Tail(template), Tail(path))

\* C6: a pattern "METHOD /template" matches a request exactly when the methods
\* are equal and the path is an instance of the template, each character
\* outside a placeholder matching only itself.
C6_MatchesExactlyTemplateInstances ==
    (/\ ret.done
     /\ call.fn = "_matches_endpoint_pattern"
     /\ Len(Split1(call.pattern)) = 2) =>
        /\ ret.out.exc = "none"
        /\ ret.out.val =
              (/\ Split1(call.pattern)[1] = Split1(call.endpoint)[1]
               /\ IsTemplateInstance(Split1(call.pattern)[2],
                                     Split1(call.endpoint)[2]))

---------------------------------------------------------------------------
(* The pipeline: construction, then invocations of dispatch. *)

Invocations == {"A"}

\* The worker (thread and event loop) that serves the invocations: each
\* invocation runs as a task of its own, in a copy of the worker's context.
Worker == "worker"

copy_context(c, r) == [c EXCEPT ![r] = c[Worker]]

\* structlog.contextvars.bind_contextvars in a context that belongs to
\* every task of the process.
bind_contextvars_process_wide(c, r, bindings) ==
    [x \in DOMAIN c |-> Update(c[x], bindings)]

\* structlog.contextvars.bind_contextvars(**bindings) called by invocation r:
\* context variables are set in the context of the calling task.
bind_contextvars(c, r, bindings) == [c EXCEPT ![r] = Update(@, bindings)]

\* The pipeline states invocation r enters, in order.
Entered(r, states) == [i \in 1..Len(states) |-> [r |-> r, at |-> states[i]]]

Init ==
    /\ constructed = "none"
    /\ config = NoConfig
    /\ pc = [r \in Invocations |-> "idle"]
    /\ req = [r \in Invocations |-> Idle]
    /\ request_state = [r \in Invocations |-> EmptyMap]
    /\ request_data = [r \in Invocations |-> Idle]
    /\ ctx = [r \in Invocations \cup {Worker} |-> EmptyMap]
    /\ trace = <<>>
    /\ log = [r \in Invocations |-> <<>>]
    /\ downstream = [r \in Invocations |-> [kind |-> "pending"]]
    /\ result = [r \in Invocations |-> [kind |-> "none"]]
    /\ call = [fn |-> "none"]
    /\ ret = Pending

\* ObservabilityMiddleware.__init__(app, config): ValueError without a
\* configuration; the configuration object exists only if its own
\* constructor accepted it.
Construct(cfg) ==
    /\ constructed = "none"
    /\ IF cfg # NoConfig /\ ValidConfig(cfg)
       THEN constructed' = "ok" /\ config' = cfg
       ELSE constructed' = "failed" /\ UNCHANGED config
    /\ UNCHANGED <<pc, req, request_state, request_data, ctx, trace, log, downstream, result,
                   call, ret>>

\* RequestResponseLoggingMiddleware.__init__(app, config) used on its own:
\* config or ObservabilityConfig(), and ObservabilityConfig() has no
\* service_name to offer.
ConstructLoggingOnly(cfg) ==
    /\ constructed = "none"
    /\ IF cfg # NoConfig /\ ValidConfig(cfg)
       THEN constructed' = "logging_only" /\ config' = cfg
       ELSE constructed' = "failed" /\ UNCHANGED config
    /\ UNCHANGED <<pc, req, request_state, request_data, ctx, trace, log, downstream, result,
                   call, ret>>

\* dispatch up to the await of the request body.
Start(r, request, correlation_id) ==
    /\ constructed \in {"ok", "logging_only"}
    /\ pc[r] = "idle"
    /\ req' = [req EXCEPT ![r] = request]
    /\ request_state' = [request_state EXCEPT ![r] = request.state]
    /\ ctx' = bind_contextvars(copy_context(ctx, r), r,
                                [k \in {"correlation_id"} |-> correlation_id])
    /\ trace' = trace \o Entered(r, <<"START", "CAPTURING_REQUEST">>)
    /\ request_data' = [request_data EXCEPT ![r] =
                           _capture_request(request, correlation_id, config)]
    /\ pc' = [pc EXCEPT ![r] = "reading_body"]
    /\ UNCHANGED <<constructed, config, log, downstream, result, call, ret>>

\* The body read is over: _capture_request returns, user_id is bound, and
\* dispatch awaits call_next.
BodyRead(r) ==
    /\ pc[r] = "reading_body"
    /\ LET body == _capture_request_body(req[r].body, config) IN
       /\ request_data' = [request_data EXCEPT ![r].body = body.val]
       /\ log' = [log EXCEPT ![r] = @ \o body.warnings]
    /\ ctx' = IF Truthy(request_data[r].user_id)
               THEN bind_contextvars(ctx, r,
                        [k \in {"user_id"} |-> request_data[r].user_id])
               ELSE ctx
    /\ trace' = trace \o Entered(r, <<"INVOKING_HANDLER">>)
    /\ pc' = [pc EXCEPT ![r] = "calling_next"]
    /\ UNCHANGED <<constructed, config, req, request_state, downstream, result, call, ret>>

\* call_next is over and dispatch runs to its end.
Leave(r, done) ==
    /\ log' = [log EXCEPT ![r] = @ \o done.records]
    /\ result' = [result EXCEPT ![r] = done.result]
    /\ trace' = trace \o Entered(r, done.steps \o <<"END">>)

\* The invocation that entered dispatch last.
LastStarted ==
    LET starts == {i \in 1..Len(trace) : trace[i].at = "START"}
    IN trace[CHOOSE i \in starts : \A j \in starts : j <= i].r

\* dispatch keeping request_data in one place for all invocations: the
\* record is built from what the invocation that started last has captured.
Finish_shared_request_data(r, outcome) ==
    /\ pc[r] = "calling_next"
    /\ downstream' = [downstream EXCEPT ![r] = outcome]
    /\ Leave(r, DispatchAfterCallNext(config, req[r], request_data[LastStarted],
                                      outcome))
    /\ pc' = [pc EXCEPT ![r] = "done"]
    /\ UNCHANGED <<constructed, config, req, request_state, request_data, ctx, call, ret>>

Finish(r, outcome) ==
    /\ pc[r] = "calling_next"
    /\ downstream' = [downstream EXCEPT ![r] = outcome]
    /\ Leave(r, DispatchAfterCallNext(config, req[r], request_data[r], outcome))
    /\ pc' = [pc EXCEPT ![r] = "done"]
    /\ UNCHANGED <<constructed, config, req, request_state, request_data, ctx, call, ret>>

HandlerSetsUserId(r) ==
    /\ pc[r] = "calling_next"
    /\ "user_id" \notin DOMAIN request_state[r]
    /\ request_state' = [request_state EXCEPT ![r] =
                            Update(@, [k \in {"user_id"} |-> HandlerUserId])]
    /\ UNCHANGED <<constructed, config, pc, req, request_data, ctx, trace, log,
                   downstream, result, call, ret>>

HandlerReturns(r, response) ==
    Finish(r, [kind |-> "returned", response |-> response])

HandlerRaises(r, e) ==
    Finish(r, [kind |-> "raised", exc |-> e])

\* The task is cancelled while dispatch is suspended at one of its awaits:
\* CancelledError is no Exception, so neither except clause handles it.
Cancel(r) ==
    /\ pc[r] \in {"reading_body", "calling_next"}
    /\ result' = [result EXCEPT ![r] = [kind |-> "raised", exc |-> CancelledError]]
    /\ pc' = [pc EXCEPT ![r] = "done"]
    /\ trace' = trace \o Entered(r, <<"END">>)
    /\ UNCHANGED <<constructed, config, req, request_state, request_data, ctx, log, downstream,
                   call, ret>>

Requests ==
    {[method |-> e[1], path |-> e[2], headers |-> h,
      query_params |-> QueryParams, state |-> s, body |-> b] :
        e \in Endpoints, h \in InboundHeaders, s \in RequestStates,
        b \in RequestBodies}

\* The configurations given to a logging middleware used on its own.
LoggingOnlyConfigs == {cfg \in Configs : cfg.business_events = <<>>}

Next ==
    \/ \E cfg \in Configs \cup {UnsplittableConfig, NoConfig} : Construct(cfg)
    \/ \E cfg \in LoggingOnlyConfigs \cup {NoConfig} : ConstructLoggingOnly(cfg)
    \/ \E r \in DOMAIN pc, request \in Requests :
          Start(r, request, get_correlation_id(constructed, r, request, config))
    \/ \E r \in DOMAIN pc : BodyRead(r)
    \/ \E r \in DOMAIN pc : HandlerSetsUserId(r)
    \/ \E r \in DOMAIN pc, response \in Responses : HandlerReturns(r, response)
    \/ \E r \in DOMAIN pc, e \in HandlerExceptions : HandlerRaises(r, e)
    \/ \E r \in DOMAIN pc : Cancel(r)

Spec == Init /\ [][Next]_vars

---------------------------------------------------------------------------
(* Two invocations of dispatch served by one worker, in any interleaving. *)

WorkerInvocations == {"A", "B"}

WorkerConfig == ObservabilityConfig(TRUE, TRUE, TRUE, PipelineLimit, {}, <<>>)

\* A request with a correlation header, a user and a JSON body; one with
\* none of them; one with a user object and a body that cannot be read.
WorkerRequests ==
    {request \in Requests :
        \/ /\ request.method = "POST"
           /\ "x-correlation-id" \in DOMAIN request.headers
           /\ request.state = [k \in {"user_id"} |-> PyStr(<<"u1">>)]
           /\ request.body = <<"{", "name", "Docs", "password", "hunter2", "}">>
        \/ /\ request.method = "GET" /\ request.path = <<"/", "a">>
           /\ "x-correlation-id" \notin DOMAIN request.headers
           /\ request.state = EmptyMap
           /\ request.body = <<>>
        \/ /\ request.method = "GET" /\ request.path = <<"/", "a", "/", "b">>
           /\ "x-correlation-id" \notin DOMAIN request.headers
           /\ request.state = [k \in {"user"} |-> [a \in {"id"} |-> PyStr(<<"u2">>)]]
           /\ request.body = IOFailure}

WorkerResponses ==
    {response \in Responses :
        \/ response.kind = "StreamingResponse"
        \/ response.kind = "Response" /\ response.body = <<"{", "name", "Docs", "}">>}

InitWorker ==
    /\ constructed = "ok"
    /\ config = WorkerConfig
    /\ pc = [r \in WorkerInvocations |-> "idle"]
    /\ req = [r \in WorkerInvocations |-> Idle]
    /\ request_state = [r \in WorkerInvocations |-> EmptyMap]
    /\ request_data = [r \in WorkerInvocations |-> Idle]
    /\ ctx = [r \in WorkerInvocations \cup {Worker} |-> EmptyMap]
    /\ trace = <<>>
    /\ log = [r \in WorkerInvocations |-> <<>>]
    /\ downstream = [r \in WorkerInvocations |-> [kind |-> "pending"]]
    /\ result = [r \in WorkerInvocations |-> [kind |-> "none"]]
    /\ call = [fn |-> "none"]
    /\ ret = Pending

NextWorker ==
    \/ \E r \in DOMAIN pc, request \in WorkerRequests :
          Start(r, request, get_correlation_id(constructed, r, request, config))
    \/ \E r \in DOMAIN pc : BodyRead(r)
    \/ \E r \in DOMAIN pc : HandlerSetsUserId(r)
    \/ \E r \in DOMAIN pc, response \in WorkerResponses : HandlerReturns(r, response)
    \/ \E r \in DOMAIN pc, e \in HandlerExceptions : HandlerRaises(r, e)
    \/ \E r \in DOMAIN pc : Cancel(r)

SpecWorker == InitWorker /\ [][NextWorker]_vars

---------------------------------------------------------------------------
(* Properties of the pipeline. *)

\* The request records (success or failure) an invocation has logged.
RequestRecords(r) ==
    {i \in 1..Len(log[r]) : log[r][i].level \in {"info", "error"}}

Cancelled(r) == result[r] = [kind |-> "raised", exc |-> CancelledError]

\* C1 as stated: every invocation of dispatch that has ended, by returning or
\* by raising, has logged exactly one request record.
C1_ExactlyOneRecordPerInvocation ==
    \A r \in DOMAIN pc :
        pc[r] = "done" => Cardinality(RequestRecords(r)) = 1

\* C1 as amended: an invocation that has ended has logged exactly one request
\* record unless it was cancelled at an await, and then it has logged none;
\* an invocation still running has logged none.
C1_OneRecordUnlessCancelled ==
    \A r \in DOMAIN pc :
        Cardinality(RequestRecords(r)) =
            IF pc[r] = "done" /\ ~Cancelled(r) THEN 1 ELSE 0

\* C1's case: the handler returned, dispatch raised all the same, and the
\* one record is the failure record.
C1_Witness ==
    \E r \in DOMAIN pc :
        /\ pc[r] = "done"
        /\ downstream[r].kind = "returned"
        /\ result[r].kind = "raised"
        /\ \E i \in RequestRecords(r) : log[r][i].level = "error"

\* C2: when call_next raises E, dispatch has logged one failure record with
\* the request data, E's type name and message and no response, and has
\* raised E itself.
C2_HandlerExceptionLoggedAndReraised ==
    \A r \in DOMAIN pc :
        downstream[r].kind = "raised" =>
            /\ pc[r] = "done"
            /\ result[r] = [kind |-> "raised", exc |-> downstream[r].exc]
            /\ Cardinality(RequestRecords(r)) = 1
            /\ \A i \in RequestRecords(r) :
                  /\ log[r][i].level = "error"
                  /\ log[r][i].request = request_data[r]
                  /\ log[r][i].response = NoResponse
                  /\ log[r][i].exception_type = downstream[r].exc.type
                  /\ log[r][i].exception_message = downstream[r].exc.message

\* C2's case: the handler raised ValueError for a request with a JSON body.
C2_Witness ==
    \E r \in DOMAIN pc :
        /\ downstream[r].kind = "raised"
        /\ downstream[r].exc.type = "ValueError"
        /\ IsDict(request_data[r].body)
        /\ result[r].kind = "raised"

\* C3: when call_next returns a response, dispatch returns a response, logs
\* a success record with the request and response data and logs no failure
\* record, whatever the configuration and the contents.
C3_ReturnedResponseNeverFails ==
    \A r \in DOMAIN pc :
        downstream[r].kind = "returned" =>
            /\ result[r].kind = "returned"
            /\ \A i \in RequestRecords(r) :
                  /\ log[r][i].level = "info"
                  /\ log[r][i].request = request_data[r]
                  /\ log[r][i].response # NoResponse

\* C7: a middleware is constructed only with a configuration, and once it is
\* constructed no invocation ends with the error of a pattern that does not
\* compile.
C7_PatternErrorsOnlyAtConstruction ==
    /\ constructed = "ok" => config # NoConfig
    /\ \A r \in DOMAIN pc : result[r] # [kind |-> "raised", exc |-> RegexError]

\* Whether the bytes of a body are captured by decoding them as JSON.
DecodedAsJson(body, cfg) ==
    /\ body # IOFailure
    /\ body # <<>>
    /\ Len(body) <= cfg.payload_size_limit
    /\ json_loads(body).exc = "none"

SensitiveKeys(cfg) == BuiltinSensitiveKeys \cup cfg.additional_redaction_patterns

\* No sensitive key of a captured mapping holds anything but the mask.
Masked(body, cfg) ==
    IsDict(body) =>
        \A k \in DOMAIN body.v \cap SensitiveKeys(cfg) :
            body.v[k] = PyStr(<<MaskToken>>)

Redacted(body, captured, cfg) ==
    /\ captured = redact_data(json_loads(body).val, cfg.additional_redaction_patterns)
    /\ Masked(captured, cfg)

\* C8: in every request record, a request or response body that was decoded
\* as JSON is the output of redact_data under the configured patterns, and a
\* body field copied into business_context is the field of a redacted body.
C8_DecodedBodiesAreRedacted ==
    \A r \in DOMAIN pc : \A i \in RequestRecords(r) :
        LET rec == log[r][i] IN
        /\ DecodedAsJson(req[r].body, config) =>
               Redacted(req[r].body, rec.request.body, config)
        /\ (/\ rec.level = "info"
            /\ downstream[r].response.kind = "Response"
            /\ DecodedAsJson(downstream[r].response.body, config)) =>
               Redacted(downstream[r].response.body, rec.response.body, config)
        /\ \A n \in DOMAIN rec.business_context \cap JsonKeys :
              /\ n \in SensitiveKeys(config) =>
                     rec.business_context[n] = PyStr(<<MaskToken>>)
              /\ \/ /\ IsDict(rec.request.body)
                    /\ n \in DOMAIN rec.request.body.v
                    /\ rec.business_context[n] = rec.request.body.v[n]
                 \/ /\ IsDict(rec.response.body)
                    /\ n \in DOMAIN rec.response.body.v
                    /\ rec.business_context[n] = rec.response.body.v[n]

\* C8's case: a tracked request whose JSON body holds a password; the record
\* and the business context hold the mask, the name is kept.
C8_Witness ==
    \E r \in DOMAIN pc : \E i \in RequestRecords(r) :
        /\ log[r][i].has_event
        /\ req[r].body = <<"{", "name", "Docs", "password", "hunter2", "}">>
        /\ "password" \in DOMAIN log[r][i].business_context
        /\ log[r][i].request.body.v["password"] = PyStr(<<MaskToken>>)
        /\ log[r][i].business_context["password"] = PyStr(<<MaskToken>>)
        /\ log[r][i].business_context["name"] = PyStr(<<"Docs">>)

\* Whether a pattern matches a request as C6 states it.
PatternMatches(request, pattern) ==
    /\ Len(Split1(pattern)) = 2
    /\ Split1(pattern)[1] = <<request.method>>
    /\ IsTemplateInstance(Split1(pattern)[2], request.path)

\* C9: when call_next returns, the success record carries the event of the
\* first pattern, in configuration order, that matches the request, and no
\* event and no business context when no pattern matches.
C9_FirstMatchingPatternWins ==
    \A r \in DOMAIN pc :
        downstream[r].kind = "returned" =>
            LET events == config.business_events
                matching == {j \in 1..Len(events) : PatternMatches(req[r], events[j][1])}
            IN \E i \in RequestRecords(r) :
                  /\ log[r][i].level = "info"
                  /\ IF matching = {}
                     THEN /\ ~log[r][i].has_event
                          /\ log[r][i].business_context = EmptyMap
                     ELSE /\ log[r][i].has_event
                          /\ \E j \in matching :
                                /\ \A m \in matching : j <= m
                                /\ log[r][i].event_type = events[j][2].event_type

\* Whether the bytes of a body are captured as a decoded JSON mapping that
\* holds the field n.
DecodedMappingWith(body, n, cfg) ==
    /\ DecodedAsJson(body, cfg)
    /\ IsDict(json_loads(body).val)
    /\ n \in DOMAIN json_loads(body).val.v

Names(fields) == {fields[i] : i \in 1..Len(fields)}

\* C10: every field of business_context is a name of extract_from_request
\* found in a request body decoded as a JSON mapping, a name of
\* extract_from_response found in such a response body, or a path parameter;
\* a body captured as absent, raw text, truncated or unsupported gives none.
C10_FieldsOnlyFromDecodedMappings ==
    \A r \in DOMAIN pc : \A i \in RequestRecords(r) :
        log[r][i].has_event =>
            \E j \in 1..Len(config.business_events) :
                LET event_config == config.business_events[j][2] IN
                /\ event_config.event_type = log[r][i].event_type
                /\ \A n \in DOMAIN log[r][i].business_context :
                      \/ /\ n \in Names(event_config.extract_from_request)
                         /\ DecodedMappingWith(req[r].body, n, config)
                      \/ /\ n \in Names(event_config.extract_from_response)
                         /\ downstream[r].response.kind = "Response"
                         /\ DecodedMappingWith(downstream[r].response.body, n, config)
                      \/ n \in Names(event_config.extract_from_path)

\* The correlation header of the response dispatch returned, as a Python
\* value: None when the response has no such header.
ReturnedCorrelationHeader(r) ==
    LET headers == result[r].response.headers IN
    IF config.correlation_id_header \in DOMAIN headers
    THEN PyStr(<<headers[config.correlation_id_header]>>)
    ELSE PyNone

\* The inbound correlation header of a request: None when it has none.
InboundCorrelationHeader(request) ==
    LET key == HeaderKey(config.correlation_id_header) IN
    IF key \in DOMAIN request.headers THEN PyStr(<<request.headers[key]>>)
    ELSE PyNone

\* The correlation id is read once: request_data and the bound context hold
\* what get_correlation_id() returned when dispatch started, for as long as
\* the invocation exists, and every request record carries it.
CorrelationIdReadOnce(r) ==
    pc[r] # "idle" =>
        /\ request_data[r].correlation_id =
               get_correlation_id(constructed, r, req[r], config)
        /\ ctx[r]["correlation_id"] = request_data[r].correlation_id
        /\ \A i \in RequestRecords(r) :
              log[r][i].request.correlation_id = request_data[r].correlation_id

---------------------------------------------------------------------------
(* Properties of invocations that share a worker. *)

\* Whether invocation a entered state x before invocation b entered state y.
Before(a, x, b, y) ==
    \E i, j \in 1..Len(trace) :
        i < j /\ trace[i] = [r |-> a, at |-> x] /\ trace[j] = [r |-> b, at |-> y]

HasEntered(r, x) == \E i \in 1..Len(trace) : trace[i] = [r |-> r, at |-> x]

\* The bound context of invocation r holds nothing but what r itself bound.
OwnContext(r) ==
    IF pc[r] = "idle" THEN ctx[r] = EmptyMap
    ELSE /\ DOMAIN ctx[r] \subseteq {"correlation_id", "user_id"}
         /\ ctx[r]["correlation_id"] = request_data[r].correlation_id
         /\ "user_id" \in DOMAIN ctx[r] =>
                ctx[r]["user_id"] = request_data[r].user_id
         /\ ~Truthy(request_data[r].user_id) => "user_id" \notin DOMAIN ctx[r]

OwnRequestData(r) ==
    [_capture_request(req[r], get_correlation_id(constructed, r, req[r], config),
                      config)
        EXCEPT !.body = IF HasEntered(r, "INVOKING_HANDLER")
                        THEN _capture_request_body(req[r].body, config).val
                        ELSE PyNone]

\* C13: in every interleaving of two invocations, what an invocation holds
\* and logs is captured from its own request and its own response, and the
\* header on its response is its own correlation id.
C13_InvocationsAreIsolated ==
    \A r \in DOMAIN pc :
        pc[r] # "idle" =>
            /\ request_data[r] = OwnRequestData(r)
            /\ OwnContext(r)
            /\ \A i \in RequestRecords(r) :
                  /\ log[r][i].request = OwnRequestData(r)
                  /\ log[r][i].level = "info" =>
                         log[r][i].response =
                             _capture_response(downstream[r].response, config).val
            /\ result[r].kind = "returned" =>
                   ReturnedCorrelationHeader(r) = OwnRequestData(r).correlation_id

\* C13's case: B entered dispatch while A was suspended and finished before
\* A did; the two requests differ in correlation id and user, and both
\* have their success record.
C13_Witness ==
    \E a, b \in DOMAIN pc :
        /\ Before(a, "START", b, "START")
        /\ Before(b, "INVOKING_HANDLER", a, "INVOKING_HANDLER")
        /\ Before(b, "END", a, "END")
        /\ request_data[a].correlation_id # request_data[b].correlation_id
        /\ request_data[a].user_id # request_data[b].user_id
        /\ \E i \in RequestRecords(a) : log[a][i].level = "info"
        /\ \E i \in RequestRecords(b) : log[b][i].level = "info"

---------------------------------------------------------------------------
(* Properties of the pipeline, continued. *)

ReadWarnings(r) ==
    {i \in 1..Len(log[r]) :
        log[r][i] = [level |-> "warning", exc |-> "IOFailure"]}

\* C15: when reading the request body fails, the failure is caught: one
\* warning is logged, the body is captured as absent, the handler is invoked,
\* and an invocation that runs to its end without being cancelled emits its
\* one request record, with the absent body.
C15_BodyReadFailureDoesNotAbort ==
    \A r \in DOMAIN pc :
        (pc[r] \notin {"idle", "reading_body"} /\ req[r].body = IOFailure
            /\ ~Cancelled(r)) =>
            /\ HasEntered(r, "INVOKING_HANDLER")
            /\ Cardinality(ReadWarnings(r)) = 1 /\ 1 \in ReadWarnings(r)
            /\ request_data[r].body = PyNone
            /\ pc[r] = "done" =>
                   /\ downstream[r].kind # "pending"
                   /\ Cardinality(RequestRecords(r)) = 1
                   /\ \A i \in RequestRecords(r) : log[r][i].request.body = PyNone

\* C15's case: the body could not be read, the handler ran and returned, and
\* the success record follows the warning.
C15_Witness ==
    \E r \in DOMAIN pc :
        /\ pc[r] = "done"
        /\ req[r].body = IOFailure
        /\ downstream[r].kind = "returned"
        /\ result[r].kind = "returned"
        /\ Len(log[r]) = 2
        /\ log[r][1].level = "warning"
        /\ log[r][2].level = "info"

\* The pipeline states invocation r has entered, in order.
Phases(r) ==
    LET own == SelectSeq(trace, LAMBDA e : e.r = r)
    IN [i \in 1..Len(own) |-> own[i].at]

IsPrefix(p, q) == Len(p) <= Len(q) /\ \A i \in 1..Len(p) : p[i] = q[i]

SuccessPath ==
    <<"START", "CAPTURING_REQUEST", "INVOKING_HANDLER", "CAPTURING_RESPONSE",
      "CLASSIFYING", "EMIT_SUCCESS", "END">>

FailurePath ==
    <<"START", "CAPTURING_REQUEST", "INVOKING_HANDLER", "EMIT_FAILURE", "END">>

\* C16: an invocation that is not cancelled passes through START,
\* CAPTURING_REQUEST, INVOKING_HANDLER, then either CAPTURING_RESPONSE,
\* CLASSIFYING, EMIT_SUCCESS or EMIT_FAILURE, then END, each state once and
\* in that order, and has passed through all of one path when it has ended.
C16_StatesInOrder ==
    \A r \in DOMAIN pc :
        ~Cancelled(r) =>
            /\ IsPrefix(Phases(r), SuccessPath) \/ IsPrefix(Phases(r), FailurePath)
            /\ pc[r] = "done" => Phases(r) \in {SuccessPath, FailurePath}

\* C17: _extract_path_params never fails; it returns the empty mapping when
\* the path is not an instance of the template, pairs the declared names left
\* to right with the segments at their positions when it is, and binds every
\* declared name to a non-empty value without "/" whenever
\* _matches_endpoint_pattern accepts the same pattern and path.
PatternPath(pattern) ==
    IF \E i \in 1..Len(pattern) : pattern[i] = Space THEN Split1(pattern)[2] ELSE pattern
DeclaredNames(template) ==
    {Join(re_findall_placeholders(template)[i]) :
        i \in 1..Len(re_findall_placeholders(template))}
RECURSIVE Substituted(_, _)
Substituted(template, val) ==
    IF template = <<>> THEN <<>>
    ELSE IF PlaceholderEnd(template) > 0
    THEN val[Join(SubSeq(template, 2, PlaceholderEnd(template) - 1))].v
            \o Substituted(Drop(template, PlaceholderEnd(template)), val)
    ELSE <<template[1]>> \o Substituted(Tail(template), val)
BindsEveryName(template, val) ==
    /\ DOMAIN val = DeclaredNames(template)
    /\ \A n \in DOMAIN val :
          /\ val[n].t = "str"
          /\ val[n].v # <<>>
          /\ \A i \in 1..Len(val[n].v) : val[n].v[i] # "/"
C17_ExtractPathParams ==
    (ret.done /\ call.fn = "_extract_path_params") =>
        /\ ret.out.exc = "none"
        /\ ~IsTemplateInstance(PatternPath(call.pattern), call.path) =>
              ret.out.val = EmptyMap
        /\ IsTemplateInstance(PatternPath(call.pattern), call.path) =>
              /\ BindsEveryName(PatternPath(call.pattern), ret.out.val)
              /\ Substituted(PatternPath(call.pattern), ret.out.val) = call.path
        /\ (/\ _matches_endpoint_pattern(Pat("GET", call.path), call.pattern).exc = "none"
            /\ _matches_endpoint_pattern(Pat("GET", call.path), call.pattern).val) =>
              BindsEveryName(PatternPath(call.pattern), ret.out.val)

\* C18: the user identifier of a record is request.state.user_id when that
\* attribute exists at request capture, else request.state.user.id when that
\* exists, else absent; it is read once, before the handler runs, so an
\* identifier the handler places on request.state is in no record of that
\* request; user_id is bound into the logging context only when the captured
\* value is non-empty.
DirectOrNestedId(attributes) ==
    CASE "user_id" \in DOMAIN attributes -> attributes["user_id"]
      [] "user_id" \notin DOMAIN attributes /\ "user" \in DOMAIN attributes
            /\ "id" \in DOMAIN attributes["user"] -> attributes["user"]["id"]
      [] OTHER -> PyNone
PlacedByHandler(r) ==
    /\ "user_id" \notin DOMAIN req[r].state
    /\ "user_id" \in DOMAIN request_state[r]
Unmasked(headers) ==
    \E k \in DOMAIN headers \cap BuiltinSensitiveKeys : headers[k] # MaskToken
C19_HeadersAndQueryOnlyThroughGates ==
    \A r \in DOMAIN pc : \A i \in RequestRecords(r) :
        /\ log[r][i].request.headers =
              IF config.log_request_headers
              THEN redact_headers(req[r].headers) ELSE PyNone
        /\ config.log_request_headers => ~Unmasked(log[r][i].request.headers)
        /\ log[r][i].request.query_params =
              IF config.log_query_params THEN req[r].query_params ELSE PyNone
        /\ log[r][i].level = "info" =>
              /\ log[r][i].response.headers =
                    IF config.log_response_headers
                    THEN redact_headers(downstream[r].response.headers) ELSE PyNone
              /\ config.log_response_headers =>
                    ~Unmasked(log[r][i].response.headers)
C19_Witness ==
    \E r \in DOMAIN pc : \E i \in RequestRecords(r) :
        /\ log[r][i].level = "info"
        /\ config.log_request_headers
        /\ config.log_response_headers
        /\ ~config.log_query_params
        /\ req[r].headers["authorization"] = "Bearer abc"
        /\ log[r][i].request.headers["authorization"] = MaskToken
        /\ log[r][i].request.headers["accept"] = "json"
        /\ downstream[r].response.headers["set-cookie"] = "sid=1"
        /\ log[r][i].response.headers["set-cookie"] = MaskToken
        /\ log[r][i].request.query_params = PyNone
====
